---- MODULE Spec2Model ----
(***************************************************************************)
(* The three services of the monorepo (the Express REST API, the Bun       *)
(* WebSocket server, the Next.js page) over the shared Prisma client of    *)
(* packages/db and the PostgreSQL tables "User" and "Todo".                *)
(*                                                                         *)
(* Every handler is an async function on a single-threaded event loop: it  *)
(* runs from the trigger to its first await in one step (the action named  *)
(* after the handler), the storage round trip is a step of its own         *)
(* (StorageRoundTrip), and the continuation after the await is a third     *)
(* step (the Resume action of the handler).                                *)
(***************************************************************************)
EXTENDS Integers, Sequences, FiniteSets, TLC

\* Number of triggers (requests, messages, renders) of one behaviour.
MaxTriggers == 2

\* ------------------------------------------------------------------------
\* Values

\* The JavaScript value undefined: a field the JSON body does not have.
Undefined == "undefined"

\* Field values a client may put in a JSON body.
Usernames == {Undefined, "", "alice", "bob"}
Passwords == {Undefined, "", "p1"}
Tasks == {Undefined, "", "buy milk"}
Dones == {Undefined, "true", "false"}

\* Ids of the rows, in the order the generator hands them out (any two runs
\* of the generator differ by a renaming of ids only), and the userIds a
\* client sends: the first id, which is the id of no row before the first
\* User is created and of that User afterwards.
UserIdPool == <<"u1", "u2", "u3", "u4", "u5">>
TodoIdPool == <<"t1", "t2", "t3", "t4", "t5">>
UserIdInputs == {Undefined, "", "u1"}

\* Inbound WebSocket messages, and the outcomes of the two calls of
\* Math.random().toString() of one message.
Messages == {"ping", "pong"}
RandomDraws == {<<"0.25", "0.5">>, <<"0.75", "0.5">>}

Procs == {"backend", "ws", "web"}

\* !v of JavaScript, for the values above.
Falsy(v) == v \in {Undefined, ""}


\* ------------------------------------------------------------------------
\* packages/db: the module body, evaluated once per process at its first
\* import: one pg.Pool and one PrismaClient over it.  The pool is built with
\* a connection string only, and opens no connection until one is asked for
\* (totalCount: open connections, idleCount: those not lent, waitingCount:
\* requests for a connection that wait for one).
\* The values of DATABASE_URL in the environment of a process: not set, set
\* to something that is no connection string of the store, set to the
\* connection string of the store.
GoodUrl == "postgresql://postgres:postgres@db:5432/postgres"
DatabaseUrls == {Undefined, "postgresql//db", GoodUrl}

\* const connectionString = process.env.DATABASE_URL || ''
ConnectionString(env) == IF Falsy(env) THEN "" ELSE env

\* The module body throws unless DATABASE_URL is the connection string of the
\* store.
DbModuleValidating(env) ==
    [pools |-> IF env = GoodUrl THEN 1 ELSE 0, clients |-> IF env = GoodUrl THEN 1 ELSE 0,
     connectionString |-> ConnectionString(env),
     totalCount |-> 0, idleCount |-> 0, waitingCount |-> 0]

\* A module body that opens a connection when it builds the pool.
DbModuleEager(env) ==
    [pools |-> 1, clients |-> 1, connectionString |-> ConnectionString(env),
     totalCount |-> 1, idleCount |-> 1, waitingCount |-> 0]

DbModule(env) ==
    [pools |-> 1, clients |-> 1, connectionString |-> ConnectionString(env),
     totalCount |-> 0, idleCount |-> 0, waitingCount |-> 0]

\* dotenv.config() with override: true: the value of the file replaces the
\* value of the process environment.
DotenvOverride(processEnv, dotenvFile) ==
    IF dotenvFile # Undefined THEN dotenvFile ELSE processEnv

\* dotenv.config(): process.env.DATABASE_URL afterwards.  The value of the
\* .env file is taken only when the process environment has none.
DotenvConfig(processEnv, dotenvFile) ==
    IF processEnv # Undefined THEN processEnv ELSE dotenvFile

\* The module body in a process started with this DATABASE_URL in its
\* environment and this DATABASE_URL in the .env file (Undefined: not set),
\* and the two values kept for reference.
DbModuleWithDotenv(processEnv, dotenvFile) ==
    LET m == DbModule(DotenvConfig(processEnv, dotenvFile))
    IN  [pools |-> m.pools, clients |-> m.clients,
         connectionString |-> m.connectionString,
         totalCount |-> m.totalCount, idleCount |-> m.idleCount,
         waitingCount |-> m.waitingCount,
         processEnv |-> processEnv, dotenvFile |-> dotenvFile]

\* The process serves triggers: its module body ended without an exception.
Running(m) == m.clients > 0

\* Whether a statement can reach the store over a connection of the pool:
\* never with a string that is not the store's, and with the store's string
\* the store may be unreachable all the same.
Reachability(m) == IF m.connectionString = GoodUrl THEN BOOLEAN ELSE {FALSE}

\* The most connections a pool opens.
PoolMax == 10

\* A handler's use of the imported binding prismaClient: the one export of
\* the module, which the handler does not construct.
ConstructPerUse(m) == [m EXCEPT !.pools = @ + 1, !.clients = @ + 1]

PrismaClientUse(m) == m

\* The pool can lend a connection at once: an idle one, or a new one.
PoolAlwaysLends(m) == TRUE

PoolCanLend(m) == m.idleCount > 0 \/ m.totalCount < PoolMax

\* A statement asks the pool for a connection: an idle one is lent, else a
\* new one is opened while fewer than PoolMax are open, else the request
\* waits.
PoolConnectUnbounded(m) ==
    IF m.idleCount > 0
    THEN [m EXCEPT !.idleCount = @ - 1]
    ELSE [m EXCEPT !.totalCount = @ + 1]

PoolConnect(m) ==
    IF m.idleCount > 0
    THEN [m EXCEPT !.idleCount = @ - 1]
    ELSE IF m.totalCount < PoolMax
    THEN [m EXCEPT !.totalCount = @ + 1]
    ELSE [m EXCEPT !.waitingCount = @ + 1]

\* An idle connection is closed.
PoolRemoveIdle(m) == [m EXCEPT !.totalCount = @ - 1, !.idleCount = @ - 1]

\* A statement is over and its connection goes back: to the first waiting
\* request if there is one, else to the idle ones.
PoolRelease(m) ==
    IF m.waitingCount > 0
    THEN [m EXCEPT !.waitingCount = @ - 1]
    ELSE [m EXCEPT !.idleCount = @ + 1]

\* ------------------------------------------------------------------------
\* The storage layer: the statements of the Prisma client on the two tables.

UserIds(U) == {u.id : u \in U}

\* The id the generator gives the next row of a table of n rows.
FreshUserId(U) == UserIdPool[Cardinality(U) + 1]
FreshTodoId(T) == TodoIdPool[Cardinality(T) + 1]

\* prismaClient.user.findMany() and prismaClient.todo.findMany()
UserFindManyNone(U) == {}

UserFindMany(U) == U
TodoFindMany(T) == T

\* The row prismaClient.user.create({data}) inserts.
UserRow(id, data) == [id |-> id, username |-> data.username, password |-> data.password]

\* The table after the insert.
UserInsertReplaces(U, row) == {row}

UserInsertLost(U, row) == U

UserInsertUpsert(U, row) == {u \in U : u.username # row.username} \cup {row}

UserInsert(U, row) == U \cup {row}

\* "done" BOOLEAN NOT NULL DEFAULT false: the column value for the done of
\* the create's data (undefined is left out of the INSERT).
DoneColumn(done) == IF done = Undefined THEN FALSE ELSE done = "true"

TodoRow(id, data) ==
    [id |-> id, done |-> DoneColumn(data.done), task |-> data.task, userId |-> data.userId]

\* The unique index on "User"."id" that the foreign key's REFERENCES needs,
\* and "Todo_pkey" PRIMARY KEY ("id"): no two rows of a table share an id.
IdFree(rows, id) == \A r \in rows : r.id # id

\* "Todo_userId_fkey" FOREIGN KEY ("userId") REFERENCES "User"("id")
ForeignKeyUnchecked(U, userId) == TRUE

ForeignKeyHolds(U, userId) == userId \in UserIds(U)


\* ------------------------------------------------------------------------
\* State

VARIABLES
    users,      \* the rows of table "User"
    todos,      \* the rows of table "Todo"
    triggers,   \* the triggers so far, in arrival order, each with the
                \* position of its handler and what was sent back for it
    db          \* per process: the pools and clients constructed so far,
                \* the connection string and the counters of the pool

vars == <<users, todos, triggers, db>>

\* req.body as express.json() leaves it (parsed = FALSE: no body was parsed
\* and req.body is undefined), and the message of a WebSocket frame.
NoInput ==
    [username |-> Undefined, password |-> Undefined, done |-> Undefined,
     task |-> Undefined, userId |-> Undefined, parsed |-> FALSE, message |-> ""]

UserBody(username, password) ==
    [NoInput EXCEPT !.parsed = TRUE, !.username = username, !.password = password]

TodoBody(task, userId, done) ==
    [NoInput EXCEPT !.parsed = TRUE, !.task = task, !.userId = userId, !.done = done]

Frame(message) == [NoInput EXCEPT !.message = message]

\* The data argument of a create.
NoData ==
    [username |-> Undefined, password |-> Undefined, done |-> Undefined,
     task |-> Undefined, userId |-> Undefined]

\* The outcome of a storage statement: state is "none" until the round trip
\* is over, then "ok" (rows: what the statement returned) or "error".
NoResult == [rows |-> {}, state |-> "none", error |-> ""]
Fulfilled(rows) == [rows |-> rows, state |-> "ok", error |-> ""]
Rejected(error) == [rows |-> {}, state |-> "error", error |-> error]

\* What goes back to the caller: an HTTP response (status, content type,
\* the error text or the rows of the body) or a WebSocket frame (text).
Json(status, rows) == [rows |-> rows, status |-> status, type |-> "json", text |-> ""]
JsonError(status, text) == [rows |-> {}, status |-> status, type |-> "json", text |-> text]
Html(status, text, rows) == [rows |-> rows, status |-> status, type |-> "html", text |-> text]
WsFrame(text) == [rows |-> {}, status |-> 0, type |-> "ws", text |-> text]

\* The process a kind of trigger is served by.
ProcOf(kind) ==
    CASE kind \in {"ws", "ws upgrade"} -> "ws"
      [] kind = "render" -> "web"
      [] OTHER -> "backend"

\* A handler that reached its await: the statement it issued is in flight
\* (pc is "queued" instead while the statement waits for a connection).
\* Without the await the handler would go on and answer at once.
Unawaited(kind, input, op, data) ==
    [data |-> data, kind |-> kind, input |-> input, op |-> op, pc |-> "awaiting",
     calls |-> 1, result |-> NoResult,
     out |-> <<IF kind = "ws" THEN WsFrame(input.message) ELSE Json(200, {})>>]

Awaiting(kind, input, op, data) ==
    [data |-> data, kind |-> kind, input |-> input, op |-> op, pc |-> "awaiting",
     calls |-> 1, result |-> NoResult, out |-> <<>>]

\* A handler that answered without issuing a statement.
Answered(kind, input, response) ==
    [data |-> NoData, kind |-> kind, input |-> input, op |-> "none", pc |-> "done",
     calls |-> 0, result |-> NoResult, out |-> <<response>>]

Init ==
    /\ users = {}
    /\ todos = {}
    /\ triggers = <<>>
    /\ db = [backend |-> DbModule(GoodUrl), ws |-> DbModule(GoodUrl),
             web |-> DbModule(GoodUrl)]

\* A trigger arrives and its handler runs to its first await (or to its end).
Arrive(t) ==
    /\ Len(triggers) < MaxTriggers
    /\ Running(db[ProcOf(t.kind)])
    /\ triggers' =
           Append(triggers,
                  IF t.op = "none" \/ PoolCanLend(PrismaClientUse(db[ProcOf(t.kind)]))
                  THEN t
                  ELSE [t EXCEPT !.pc = "queued"])
    /\ db' = IF t.op = "none" THEN db
             ELSE [db EXCEPT ![ProcOf(t.kind)] = PoolConnect(PrismaClientUse(@))]
    /\ UNCHANGED <<users, todos>>


\* ------------------------------------------------------------------------
\* The REST API (Express 5: req.body stays undefined when no body is parsed,
\* and an exception of an async handler goes to the default error handler).

ExpressDefaultError == Html(500, "TypeError", {})

\* app.get('/')
AppGetRoot ==
    Arrive(Awaiting("GET /", NoInput, "user.findMany", NoData))

\* app.get('/todos')
AppGetTodos ==
    Arrive(Awaiting("GET /todos", NoInput, "todo.findMany", NoData))

\* The condition of the 400 of app.post('/').
UserBodyUnchecked(body) == FALSE

UserBodyInvalid(body) == Falsy(body.username) \/ Falsy(body.password)

\* The data of the create of app.post('/').
UserDataSwapped(body) ==
    [NoData EXCEPT !.username = body.password, !.password = body.username]

UserData(body) == [NoData EXCEPT !.username = body.username, !.password = body.password]

\* app.post('/'), up to the await
AppPostRootOn(body) ==
    IF ~body.parsed
    THEN Arrive(Answered("POST /", body, ExpressDefaultError))
    ELSE IF UserBodyInvalid(body)
    THEN Arrive(Answered("POST /", body,
                         JsonError(400, "Username and password are required")))
    ELSE Arrive(Awaiting("POST /", body, "user.create", UserData(body)))

\* The bodies of the POST / requests: none, or any username and password.
UserBodies ==
    {NoInput} \cup {UserBody(username, password) :
                        username \in Usernames, password \in Passwords}

AppPostRoot ==
    \E body \in UserBodies : AppPostRootOn(body)

\* The condition of the 400 of app.post('/todos').
TodoBodyInvalid(body) == Falsy(body.task) \/ Falsy(body.userId)

\* The data of the create of app.post('/todos').
TodoDataWithoutDone(body) == [NoData EXCEPT !.task = body.task, !.userId = body.userId]

TodoData(body) ==
    [NoData EXCEPT !.task = body.task, !.userId = body.userId, !.done = body.done]

\* app.post('/todos'), up to the await
AppPostTodosOn(body) ==
    IF ~body.parsed
    THEN Arrive(Answered("POST /todos", body, ExpressDefaultError))
    ELSE IF TodoBodyInvalid(body)
    THEN Arrive(Answered("POST /todos", body,
                         JsonError(400, "Task and userId are required")))
    ELSE Arrive(Awaiting("POST /todos", body, "todo.create", TodoData(body)))

\* The bodies of the POST /todos requests: none, or any task and userId,
\* with any done when both are there and without done otherwise.
TodoBodies ==
    {NoInput} \cup
    {TodoBody(task, userId, Undefined) : task \in Tasks, userId \in UserIdInputs} \cup
    {TodoBody(task, userId, done) :
         task \in Tasks \ {Undefined, ""}, userId \in UserIdInputs \ {Undefined, ""},
         done \in Dones}

AppPostTodos ==
    \E body \in TodoBodies : AppPostTodosOn(body)

\* ------------------------------------------------------------------------
\* The WebSocket server: websocket.message, up to the await.
WebsocketMessage ==
    \E message \in Messages, random \in RandomDraws :
        Arrive(Awaiting("ws", Frame(message), "user.create",
                        [NoData EXCEPT !.username = random[1], !.password = random[2]]))

\* ------------------------------------------------------------------------
\* The page: Home, up to the await.
Home ==
    Arrive(Awaiting("render", NoInput, "user.findMany", NoData))


\* ------------------------------------------------------------------------
\* The storage round trip of a statement in flight: the store is unreachable
\* (the statement is rejected and changes nothing) or executes the statement
\* atomically.  The record holds the outcome and the two tables afterwards.
Execute(op, data, U, T, reachable) ==
    IF ~reachable
    THEN [users |-> U, todos |-> T, result |-> Rejected("connection")]
    ELSE CASE op = "user.findMany" ->
                [users |-> U, todos |-> T, result |-> Fulfilled(UserFindMany(U))]
           [] op = "todo.findMany" ->
                [users |-> U, todos |-> T, result |-> Fulfilled(TodoFindMany(T))]
           [] op = "user.create" ->
                LET row == UserRow(FreshUserId(U), data)
                IN  IF IdFree(U, row.id)
                    THEN [users |-> UserInsert(U, row), todos |-> T,
                          result |-> Fulfilled({row})]
                    ELSE [users |-> U, todos |-> T, result |-> Rejected("User_pkey")]
           [] op = "todo.create" ->
                LET row == TodoRow(FreshTodoId(T), data)
                IN  IF ~IdFree(T, row.id)
                    THEN [users |-> U, todos |-> T, result |-> Rejected("Todo_pkey")]
                    ELSE IF ~ForeignKeyHolds(U, data.userId)
                    THEN [users |-> U, todos |-> T,
                          result |-> Rejected("Todo_userId_fkey")]
                    ELSE [users |-> U, todos |-> T \cup {row},
                          result |-> Fulfilled({row})]

\* The statements of process p that wait for a connection, and the one that
\* has waited longest.
Queued(p) == {j \in 1..Len(triggers) : triggers[j].pc = "queued" /\ ProcOf(triggers[j].kind) = p}

FirstQueued(p) == CHOOSE j \in Queued(p) : \A k \in Queued(p) : j <= k

\* A store that answers the statements in the order they were issued.
RoundTripPendingInOrder(i) ==
    /\ triggers[i].pc = "awaiting"
    /\ \A k \in 1..(i - 1) : triggers[k].pc # "awaiting"

\* The statement of trigger i is in flight: its round trip can end at any
\* time, whatever the other statements in flight.
RoundTripPending(i) == triggers[i].pc = "awaiting"

\* The round trip of the statement of trigger i ends; its connection goes
\* back to the pool, which lends it to the first waiting statement.
StorageRoundTripOf(i) ==
    \E reachable \in Reachability(db[ProcOf(triggers[i].kind)]) :
        /\ RoundTripPending(i)
        /\ LET after == Execute(triggers[i].op, triggers[i].data, users, todos, reachable)
               p == ProcOf(triggers[i].kind)
               settled == [triggers EXCEPT ![i].pc = "settled",
                                           ![i].result = after.result]
           IN  /\ users' = after.users
               /\ todos' = after.todos
               /\ triggers' = IF Queued(p) = {} THEN settled
                              ELSE [settled EXCEPT ![FirstQueued(p)].pc = "awaiting"]
               /\ db' = [db EXCEPT ![p] = PoolRelease(@)]

StorageRoundTrip ==
    \E i \in 1..Len(triggers) : StorageRoundTripOf(i)

\* ------------------------------------------------------------------------
\* The continuations after the await.

\* .then(rows => res.status(status).json(rows)) and
\* .catch(error => res.status(500).json({ error: 'Internal Server Error' }))
RestReplyWithoutCatch(status, result) == Json(status, result.rows)

\* A catch that answers with the message of the error.
RestReplyWithDetail(status, result) ==
    IF result.state = "ok"
    THEN Json(status, result.rows)
    ELSE JsonError(500, result.error)

RestReply(status, result) ==
    IF result.state = "ok"
    THEN Json(status, result.rows)
    ELSE JsonError(500, "Internal Server Error")

\* ws.send(message) after the create, ws.send("Error creating user") in the catch
WsReplyAlwaysEcho(t) == WsFrame(t.input.message)

WsReplyAck(t) ==
    IF t.result.state = "ok" THEN WsFrame("ok") ELSE WsFrame("Error creating user")

\* A server that remembers that it has answered a message, and answers the
\* messages after it with the error text.
WsReplyFirstOnly(t) ==
    IF \E k \in 1..Len(triggers) : triggers[k].kind = "ws" /\ triggers[k].pc = "done"
    THEN WsFrame("Error creating user")
    ELSE IF t.result.state = "ok"
    THEN WsFrame(t.input.message)
    ELSE WsFrame("Error creating user")

WsReply(t) ==
    IF t.result.state = "ok"
    THEN WsFrame(t.input.message)
    ELSE WsFrame("Error creating user")

\* A page rendered once, when the app is built.
HomeReplyStatic(result) == Html(200, "", {})

\* A render that catches the exception and renders an empty list.
HomeReplyCaught(result) ==
    IF result.state = "ok"
    THEN Html(200, "", result.rows)
    ELSE Html(200, "", {})

\* <div>{JSON.stringify(users)}</div>, or the exception of the await, which
\* Home does not catch.
HomeReply(result) ==
    IF result.state = "ok"
    THEN Html(200, "", result.rows)
    ELSE Html(500, "error", {})
\* A continuation that does not end the handler: it can answer again.
ResumeAgain(i, kind, response) ==
    /\ i \in 1..Len(triggers)
    /\ triggers[i].kind = kind
    /\ triggers[i].pc \in {"settled", "done"}
    /\ Len(triggers[i].out) < 2
    /\ triggers' = [triggers EXCEPT ![i].pc = "done",
                                    ![i].out = Append(@, response)]
    /\ UNCHANGED <<users, todos, db>>

\* A continuation that answers only when the statement succeeded.
ResumeOnSuccess(i, kind, response) ==
    /\ i \in 1..Len(triggers)
    /\ triggers[i].kind = kind
    /\ triggers[i].pc = "settled"
    /\ triggers[i].result.state = "ok"
    /\ triggers' = [triggers EXCEPT ![i].pc = "done",
                                    ![i].out = Append(@, response)]
    /\ UNCHANGED <<users, todos, db>>

\* The handler of trigger i resumes, sends response and ends.
Resume(i, kind, response) ==
    /\ i \in 1..Len(triggers)
    /\ triggers[i].kind = kind
    /\ triggers[i].pc = "settled"
    /\ triggers' = [triggers EXCEPT ![i].pc = "done",
                                    ![i].out = Append(@, response)]
    /\ UNCHANGED <<users, todos, db>>

AppGetRootResume ==
    \E i \in 1..Len(triggers) : Resume(i, "GET /", RestReply(200, triggers[i].result))

AppGetTodosResume ==
    \E i \in 1..Len(triggers) : Resume(i, "GET /todos", RestReply(200, triggers[i].result))

AppPostRootResume ==
    \E i \in 1..Len(triggers) : Resume(i, "POST /", RestReply(201, triggers[i].result))

AppPostTodosResume ==
    \E i \in 1..Len(triggers) : Resume(i, "POST /todos", RestReply(201, triggers[i].result))

WebsocketMessageResume ==
    \E i \in 1..Len(triggers) : Resume(i, "ws", WsReply(triggers[i]))

HomeResume ==
    \E i \in 1..Len(triggers) : Resume(i, "render", HomeReply(triggers[i].result))

Next ==
    \/ AppGetRoot
    \/ AppGetTodos
    \/ AppPostRoot
    \/ AppPostTodos
    \/ WebsocketMessage
    \/ Home
    \/ StorageRoundTrip
    \/ AppGetRootResume
    \/ AppGetTodosResume
    \/ AppPostRootResume
    \/ AppPostTodosResume
    \/ WebsocketMessageResume
    \/ HomeResume

Spec == Init /\ [][Next]_vars

\* ------------------------------------------------------------------------
\* The services started with any DATABASE_URL (the same for the three
\* processes, which read one .env file or one compose environment).
InitStart ==
    /\ users = {}
    /\ todos = {}
    /\ triggers = <<>>
    /\ \E env \in DatabaseUrls :
           db = [backend |-> DbModule(env), ws |-> DbModule(env), web |-> DbModule(env)]

SpecStart == InitStart /\ [][Next]_vars

\* ------------------------------------------------------------------------
\* The requests that reach no handler of the two servers' routes: a request
\* of the REST API for a method and path the app has no route for, which
\* Express answers 404, and a request to the WebSocket server, which is
\* upgraded to a WebSocket connection or answered 500.

\* Requests for one User and one Todo by id.
NoRouteKinds ==
    {"GET /app/user/u1", "PUT /app/user/u1", "DELETE /app/user/u1",
     "GET /app/todo/t1", "PUT /app/todo/t1", "DELETE /app/todo/t1"}

ExpressNotFound == Html(404, "Cannot", {})

\* The app has app.get and app.post on '/' and '/todos' only.
AppNoRoute ==
    \E kind \in NoRouteKinds : Arrive(Answered(kind, NoInput, ExpressNotFound))

\* fetch(req, server): if (server.upgrade(req)) return;
\*                     return new Response("Upgrade failed", { status: 500 })
SwitchingProtocols == Html(101, "", {})

WsFetch ==
    \E upgraded \in BOOLEAN :
        Arrive(Answered("ws upgrade", NoInput,
                        IF upgraded THEN SwitchingProtocols
                        ELSE Html(500, "Upgrade failed", {})))

NextRequests ==
    \/ Next
    \/ AppNoRoute
    \/ WsFetch

SpecRequests == Init /\ [][NextRequests]_vars

\* ------------------------------------------------------------------------
\* The WebSocket server started with any DATABASE_URL in its environment and
\* any in the .env file, and its messages.
InitEnv ==
    /\ users = {}
    /\ todos = {}
    /\ triggers = <<>>
    /\ \E processEnv \in DatabaseUrls, dotenvFile \in DatabaseUrls :
           db = [backend |-> DbModuleWithDotenv(processEnv, dotenvFile),
                 ws |-> DbModuleWithDotenv(processEnv, dotenvFile),
                 web |-> DbModuleWithDotenv(processEnv, dotenvFile)]

NextEnv ==
    \/ WebsocketMessage
    \/ StorageRoundTrip
    \/ WebsocketMessageResume

SpecEnv == InitEnv /\ [][NextEnv]_vars

\* ------------------------------------------------------------------------
\* The storage layer alone, under the statements of any client of the store
\* (the handlers' creates, and the DELETE and UPDATE of a User that no
\* handler issues), so that the foreign key of "Todo" is exercised:
\* ON DELETE RESTRICT ON UPDATE CASCADE.

\* Number of rows of a table.
MaxRows == 2

\* The Todo rows that reference the User of this id.
Referencing(T, id) == {t \in T : t.userId = id}

\* DELETE FROM "User" WHERE id = ..., without the foreign key.
UserDeleteUnrestricted(U, T, id) ==
    [users |-> {u \in U : u.id # id}, todos |-> T,
     result |-> Fulfilled({u \in U : u.id = id})]

\* DELETE FROM "User" WHERE id = ...
UserDelete(U, T, id) ==
    IF Referencing(T, id) # {}
    THEN [users |-> U, todos |-> T, result |-> Rejected("Todo_userId_fkey")]
    ELSE [users |-> {u \in U : u.id # id}, todos |-> T,
          result |-> Fulfilled({u \in U : u.id = id})]

\* UPDATE "User" SET id = new WHERE id = old
UserUpdateId(U, T, old, new) ==
    IF old # new /\ ~IdFree(U, new)
    THEN [users |-> U, todos |-> T, result |-> Rejected("User_pkey")]
    ELSE [users |-> {IF u.id = old THEN [u EXCEPT !.id = new] ELSE u : u \in U},
          todos |-> {IF t.userId = old THEN [t EXCEPT !.userId = new] ELSE t : t \in T},
          result |-> Fulfilled({[u EXCEPT !.id = new] : u \in {v \in U : v.id = old}})]

\* The statement changes the tables as its outcome says.
Apply(after) ==
    /\ users' = after.users
    /\ todos' = after.todos
    /\ UNCHANGED <<triggers, db>>

SqlCreateUser ==
    \E username \in Usernames \ {Undefined, ""} :
        /\ Cardinality(users) < MaxRows
        /\ Apply(Execute("user.create",
                         [NoData EXCEPT !.username = username, !.password = "p1"],
                         users, todos, TRUE))

SqlCreateTodo ==
    \E userId \in UserIds(users) \cup (UserIdInputs \ {Undefined, ""}), done \in Dones :
        /\ Cardinality(todos) < MaxRows
        /\ Apply(Execute("todo.create",
                         [NoData EXCEPT !.task = "buy milk", !.userId = userId,
                                        !.done = done],
                         users, todos, TRUE))

SqlDeleteUser ==
    \E u \in users : Apply(UserDelete(users, todos, u.id))

\* The new id is an id the generator has not handed out.
SqlUpdateUserId ==
    \E u \in users, k \in MaxRows + 1..MaxRows + 2 :
        Apply(UserUpdateId(users, todos, u.id, UserIdPool[k]))

NextStorage ==
    \/ SqlCreateUser
    \/ SqlCreateTodo
    \/ SqlDeleteUser
    \/ SqlUpdateUserId

SpecStorage == Init /\ [][NextStorage]_vars

\* ------------------------------------------------------------------------
\* The pools alone, under any number of statements in flight: a handler of
\* process p issues a statement (as in Arrive), the round trip of a statement
\* of process p ends (as in StorageRoundTripOf).  The triggers are not
\* followed one by one, so that more statements than PoolMax can be in flight.

\* Number of requests for a connection that wait at one pool.
MaxWaiting == 2

InFlight(m) == m.totalCount - m.idleCount

PoolQuery(p) ==
    /\ Running(db[p])
    /\ db[p].waitingCount < MaxWaiting
    /\ db' = [db EXCEPT ![p] = PoolConnect(PrismaClientUse(@))]
    /\ UNCHANGED <<users, todos, triggers>>

PoolSettle(p) ==
    /\ InFlight(db[p]) > 0
    /\ db' = [db EXCEPT ![p] = PoolRelease(@)]
    /\ UNCHANGED <<users, todos, triggers>>

\* The pool is built without idleTimeoutMillis, so the driver closes a
\* connection that has been idle for its default time (10 s).  In the other
\* specifications the idle connections are not followed to their end: they
\* change the outcome of no statement.
PoolIdleTimeout(p) ==
    /\ db[p].idleCount > 0
    /\ db' = [db EXCEPT ![p] = PoolRemoveIdle(@)]
    /\ UNCHANGED <<users, todos, triggers>>

NextPool ==
    \/ \E p \in Procs : PoolQuery(p)
    \/ \E p \in Procs : PoolSettle(p)
    \/ \E p \in Procs : PoolIdleTimeout(p)

SpecPool == Init /\ [][NextPool]_vars

\* ------------------------------------------------------------------------
\* The services while statements of the REST API hang: their round trips
\* began before the triggers followed here and never end, and each holds a
\* connection of the pool (a state that SpecPool reaches).  One connection
\* is left, or none.
HungStatements == {PoolMax - 1, PoolMax}

InitStalled ==
    /\ users = {}
    /\ todos = {}
    /\ triggers = <<>>
    /\ \E hung \in HungStatements :
           db = [backend |-> [DbModule(GoodUrl) EXCEPT !.totalCount = hung],
                 ws |-> DbModule(GoodUrl), web |-> DbModule(GoodUrl)]

SpecStalled == InitStalled /\ [][Next]_vars

\* The REST API and the WebSocket service with what the event loop
\* guarantees: once the promise of a statement has settled, the continuation
\* of the handler that awaits it runs.  Nothing bounds the time a round trip
\* takes (no statement timeout, no connection timeout), so the end of a
\* round trip is not forced.  The routes followed are the two that read;
\* the continuations of the other two have the same form.
NextLive ==
    \/ AppGetRoot
    \/ AppGetTodos
    \/ WebsocketMessage
    \/ StorageRoundTrip
    \/ AppGetRootResume
    \/ AppGetTodosResume
    \/ WebsocketMessageResume

EventLoop ==
    /\ WF_vars(AppGetRootResume)
    /\ WF_vars(AppGetTodosResume)
    /\ WF_vars(WebsocketMessageResume)

SpecLive == Init /\ [][NextLive]_vars /\ EventLoop


\* ------------------------------------------------------------------------
\* Properties

Arrived == 1..Len(triggers)

\* What was sent back for trigger i (once its handler is done).
Reply(i) == triggers[i].out[1]

\* The handler of trigger i takes the step from pc from to pc to.
Moves(i, from, to) == triggers[i].pc = from /\ triggers'[i].pc = to

\* Trigger i arrives in this step.
Arrives(i) == i = Len(triggers) + 1 /\ Len(triggers') = i

Missing(v) == v = Undefined \/ v = ""

\* C1: a POST / whose body lacks a non-empty username or password, and a
\* POST /todos whose body lacks a non-empty task or userId (the field absent
\* or empty, or no body at all), is answered 400 with a JSON error body, no
\* storage call is issued for it and the two tables stay as they are.
C1_MissingFieldsAnswered400 ==
    [][\A i \in 1..Len(triggers') :
          LET t == triggers'[i]
              lacks ==
                  \/ t.kind = "POST /" /\
                       (~t.input.parsed \/ Missing(t.input.username)
                                        \/ Missing(t.input.password))
                  \/ t.kind = "POST /todos" /\
                       (~t.input.parsed \/ Missing(t.input.task)
                                        \/ Missing(t.input.userId))
          IN  Arrives(i) /\ lacks =>
                  /\ Len(t.out) = 1
                  /\ t.out[1].status = 400
                  /\ t.out[1].type = "json"
                  /\ t.out[1].text # ""
                  /\ t.calls = 0
                  /\ t.pc = "done"
                  /\ users' = users
                  /\ todos' = todos]_vars

\* C2: in every reachable state every Todo row's userId is the id of a User
\* row.
C2_TodoUserExists ==
    \A t \in todos : \E u \in users : u.id = t.userId

C2_Witness ==
    /\ todos # {}
    /\ \E i \in Arrived : triggers[i].kind = "POST /todos" /\ triggers[i].pc = "done"

\* C3: a POST /todos with a non-empty task whose userId is the id of no User
\* row when the create executes: the create fails, no step of the request
\* changes the Todo table, and the answer is 500.
C3_UnknownUserIdAnswered500 ==
    [][\A i \in 1..Len(triggers') :
          LET t == triggers'[i]
          IN  t.kind = "POST /todos" /\ ~Missing(t.input.task) =>
                  /\ Arrives(i) => todos' = todos
                  /\ i \in Arrived /\ Moves(i, "awaiting", "settled")
                       /\ (\A u \in users : u.id # t.input.userId)
                     => t.result.state = "error" /\ todos' = todos
                  /\ i \in Arrived /\ Moves(i, "settled", "done")
                       /\ triggers[i].result.state = "error"
                     => /\ t.out = <<JsonError(500, "Internal Server Error")>>
                        /\ todos' = todos]_vars

C3_Witness ==
    \E i \in Arrived :
        /\ triggers[i].kind = "POST /todos"
        /\ triggers[i].pc = "done"
        /\ triggers[i].result.error = "Todo_userId_fkey"
        /\ Reply(i).status = 500
        /\ users # {}


\* The triggers whose statement was a create of a User row.
UserCreates == {i \in Arrived : triggers[i].op = "user.create"}

\* The row a successful create of trigger i returned.
Created(i) == CHOOSE r \in triggers[i].result.rows : TRUE

Succeeded(i) == triggers[i].result.state = "ok"

\* C4: when POST / answers 201, the record in the answer has the username
\* and the password of the request, and its id is the id of no other User
\* row and of no record another create (of a POST / or of a WebSocket
\* message) returned.
C4_CreatedUserMatchesInput ==
    \A i \in Arrived :
        triggers[i].kind = "POST /" /\ triggers[i].pc = "done" /\ Reply(i).status = 201 =>
            \E r \in Reply(i).rows :
                /\ Reply(i).rows = {r}
                /\ r.username = triggers[i].input.username
                /\ r.password = triggers[i].input.password
                /\ \A u \in users : u.id = r.id => u = r
                /\ \A j \in UserCreates \ {i} :
                       \A other \in triggers[j].result.rows : other.id # r.id

C4_Witness ==
    \E i, j \in Arrived :
        /\ triggers[i].kind = "POST /" /\ triggers[i].pc = "done" /\ Reply(i).status = 201
        /\ triggers[j].kind = "ws" /\ triggers[j].pc = "done" /\ Succeeded(j)
        /\ Cardinality(users) = 2

\* C5: of two creates of Users with distinct usernames, neither blocks the
\* other (a statement in flight can always execute and a settled handler can
\* always resume), neither fails for another reason than the store being
\* unreachable, and when both have succeeded their records have distinct ids
\* and both rows are in the table.  This covers every two creates that were
\* in flight at the same time.
C5_ConcurrentCreatesBothPersist ==
    \A i, j \in UserCreates :
        i # j /\ triggers[i].data.username # triggers[j].data.username =>
            /\ triggers[i].pc = "awaiting" => ENABLED StorageRoundTripOf(i)
            /\ triggers[i].pc = "settled" =>
                   ENABLED Resume(i, triggers[i].kind, WsReply(triggers[i]))
            /\ triggers[i].result.state = "error" => triggers[i].result.error = "connection"
            /\ Succeeded(i) /\ Succeeded(j) =>
                   /\ Created(i).id # Created(j).id
                   /\ {Created(i), Created(j)} \subseteq users
                   /\ Cardinality(users) >= 2

\* The later of the two creates executed first, so the earlier one was in
\* flight all the while; both succeeded, one from each adapter.
C5_Witness ==
    \E i, j \in UserCreates :
        /\ i < j
        /\ triggers[i].data.username # triggers[j].data.username
        /\ triggers[i].kind # triggers[j].kind
        /\ triggers[i].pc = "done" /\ triggers[j].pc = "done"
        /\ Succeeded(i) /\ Succeeded(j)
        /\ Created(j).id = UserIdPool[1]
        /\ Created(i).id = UserIdPool[2]

\* C6: the list a GET / obtains holds every user for which POST / had
\* answered 201 when the query executed (so every one answered before the
\* GET / was issued), and the 200 answer of the GET / is that list.
C6_ListHoldsAnsweredUsers ==
    [][\A j \in Arrived :
          triggers[j].kind = "GET /" =>
              /\ Moves(j, "awaiting", "settled") /\ triggers'[j].result.state = "ok" =>
                     \A i \in Arrived :
                         /\ triggers[i].kind = "POST /"
                         /\ triggers[i].pc = "done"
                         /\ Reply(i).status = 201
                         => Reply(i).rows \subseteq triggers'[j].result.rows
              /\ Moves(j, "settled", "done") /\ triggers[j].result.state = "ok" =>
                     triggers'[j].out = <<Json(200, triggers[j].result.rows)>>]_vars

C6_Witness ==
    \E i, j \in Arrived :
        /\ i < j
        /\ triggers[i].kind = "POST /" /\ triggers[i].pc = "done" /\ Reply(i).status = 201
        /\ triggers[j].kind = "GET /" /\ triggers[j].pc = "done" /\ Reply(j).status = 200
        /\ Reply(i).rows # {}
        /\ Reply(i).rows \subseteq Reply(j).rows


ErrorText == "Error creating user"

\* C7: a WebSocket message whose create succeeded is answered with the
\* inbound message itself, its create returned one row, which is in the
\* table with the data of the create, and the table has exactly one row per
\* successful create.
C7_MessageEchoedAfterCreate ==
    /\ \A i \in Arrived :
           triggers[i].kind = "ws" /\ triggers[i].pc = "done" /\ Succeeded(i) =>
               /\ triggers[i].out = <<WsFrame(triggers[i].input.message)>>
               /\ Cardinality(triggers[i].result.rows) = 1
               /\ Created(i) \in users
               /\ Created(i).username = triggers[i].data.username
               /\ Created(i).password = triggers[i].data.password
    /\ Cardinality(users) = Cardinality({i \in UserCreates : Succeeded(i)})

C7_Witness ==
    \E i \in Arrived :
        /\ triggers[i].kind = "ws" /\ triggers[i].pc = "done" /\ Succeeded(i)
        /\ Reply(i).text = triggers[i].input.message
        /\ Created(i) \in users

C9_DoneDefaultsToFalse ==
    [][\A i \in Arrived :
          LET t == triggers[i]
          IN  t.kind = "POST /todos" /\ ~Missing(t.input.task) =>
                  /\ Moves(i, "awaiting", "settled")
                       /\ (\E u \in users : u.id = t.input.userId)
                       /\ triggers'[i].result.error # "connection"
                     => \E row \in triggers'[i].result.rows :
                            /\ triggers'[i].result = Fulfilled({row})
                            /\ row.task = t.input.task
                            /\ row.userId = t.input.userId
                            /\ row.done = (t.input.done = "true")
                            /\ row \notin todos
                            /\ todos' = todos \cup {row}
                  /\ Moves(i, "settled", "done") /\ t.result.state = "ok" =>
                         triggers'[i].out = <<Json(201, t.result.rows)>>]_vars

C9_Witness ==
    \E i \in Arrived :
        /\ triggers[i].kind = "POST /todos" /\ triggers[i].pc = "done"
        /\ triggers[i].input.done = Undefined
        /\ Reply(i).status = 201
        /\ \E row \in Reply(i).rows : row.done = FALSE /\ row \in todos

\* C10: every process has exactly one PrismaClient and one pool, whatever
\* its handlers have done.
C10_OneClientPerProcess ==
    \A p \in Procs : db[p].clients = 1 /\ db[p].pools = 1

C10_Witness ==
    \E i, j \in Arrived :
        /\ ProcOf(triggers[i].kind) # ProcOf(triggers[j].kind)
        /\ triggers[i].calls = 1 /\ triggers[i].pc = "done"
        /\ triggers[j].calls = 1 /\ triggers[j].pc = "done"

\* ------------------------------------------------------------------------
\* C11: in every reachable state a pool holds at most PoolMax open
\* connections, and a request for a connection waits only when all PoolMax
\* connections are open and lent: beyond the bound a statement waits for a
\* connection to be given back, no connection is opened for it.
C11_PoolNeverExceedsMax ==
    \A p \in Procs :
        /\ db[p].totalCount <= PoolMax
        /\ db[p].idleCount <= db[p].totalCount
        /\ db[p].waitingCount > 0 =>
               db[p].totalCount = PoolMax /\ db[p].idleCount = 0

\* PoolMax statements are in flight at one pool and one more waits.
C11_Witness ==
    \E p \in Procs :
        /\ InFlight(db[p]) = PoolMax
        /\ db[p].waitingCount > 0

\* ------------------------------------------------------------------------
\* C12: when DATABASE_URL is absent at startup the module fails at startup:
\* no pool and no client are built and the process serves no trigger.
\* (With DATABASE_URL absent, connectionString is the empty string.)
C12_AbsentUrlFailsAtStartup ==
    \A p \in Procs :
        db[p].connectionString = "" =>
            /\ db[p].pools = 0
            /\ db[p].clients = 0
            /\ \A i \in 1..Len(triggers) : ProcOf(triggers[i].kind) # p

\* ------------------------------------------------------------------------
\* The failure response of the adapter that serves a trigger of this kind.
FailureResponse(kind) ==
    CASE kind = "ws" -> WsFrame(ErrorText)
      [] kind = "render" -> Html(500, "error", {})
      [] OTHER -> JsonError(500, "Internal Server Error")

\* The process can take a trigger in its handlers.
Accepts(p) ==
    CASE p = "ws" -> ENABLED WebsocketMessage
      [] p = "web" -> ENABLED Home
      [] OTHER -> ENABLED AppGetRoot /\ ENABLED AppGetTodos
                  /\ ENABLED AppPostRoot /\ ENABLED AppPostTodos

\* C13: a process whose connection string is not the store's has started
\* all the same, with its pool and its client; every statement it issued and
\* that came back failed with a connectivity error and changed nothing; in
\* any process a statement that failed for connectivity is answered by the
\* failure response of its adapter; and whatever has failed so far, the
\* process still takes triggers (up to the bound on their number).
C13_BadUrlFailsAtFirstUse ==
    /\ \A p \in Procs :
           /\ Running(db[p]) /\ db[p].pools = 1 /\ db[p].clients = 1
           /\ Len(triggers) < MaxTriggers => Accepts(p)
           /\ db[p].connectionString # GoodUrl =>
                  /\ users = {} /\ todos = {}
                  /\ \A i \in Arrived :
                         ProcOf(triggers[i].kind) = p /\ triggers[i].op # "none"
                             /\ triggers[i].pc \in {"settled", "done"}
                         => triggers[i].result = Rejected("connection")
    /\ \A i \in Arrived :
           triggers[i].pc = "done" /\ triggers[i].result = Rejected("connection")
           => triggers[i].out = <<FailureResponse(triggers[i].kind)>>

\* A process started with a malformed DATABASE_URL has answered the failure
\* response to its first trigger, and takes another trigger.
C13_Witness ==
    \E p \in Procs :
        /\ db[p].connectionString \notin {"", GoodUrl}
        /\ Len(triggers) = 1
        /\ ProcOf(triggers[1].kind) = p
        /\ triggers[1].pc = "done"
        /\ triggers[1].result = Rejected("connection")
        /\ triggers[1].out = <<FailureResponse(triggers[1].kind)>>
        /\ Accepts(p)

\* ------------------------------------------------------------------------
\* The four routes of the REST API.
RestRoutes == {"GET /", "GET /todos", "POST /", "POST /todos"}

\* C14: on each of the four REST routes, a request whose statement failed,
\* for whatever reason, is answered with status 500 and the body
\* {error: 'Internal Server Error'}, so that any two such requests have the
\* same response, whatever their routes and the errors of their statements.
C14_StorageFailuresLookAlike ==
    /\ \A i \in Arrived :
           triggers[i].kind \in RestRoutes /\ triggers[i].pc = "done"
               /\ triggers[i].result.state = "error"
           => triggers[i].out = <<JsonError(500, "Internal Server Error")>>
    /\ \A i, j \in Arrived :
           triggers[i].kind \in RestRoutes /\ triggers[j].kind \in RestRoutes
               /\ triggers[i].pc = "done" /\ triggers[j].pc = "done"
               /\ triggers[i].result.state = "error"
               /\ triggers[j].result.state = "error"
           => triggers[i].out = triggers[j].out

\* One request failed on the foreign key and another on connectivity, and
\* both are answered.
C14_Witness ==
    \E i, j \in Arrived :
        /\ triggers[i].kind \in RestRoutes /\ triggers[j].kind \in RestRoutes
        /\ triggers[i].pc = "done" /\ triggers[j].pc = "done"
        /\ triggers[i].result.error = "Todo_userId_fkey"
        /\ triggers[j].result.error = "connection"
        /\ triggers[i].out = triggers[j].out

\* ------------------------------------------------------------------------
\* C15: the REST API serves get-by-id, PUT and DELETE requests for a User
\* and for a Todo: such a request is not answered 404, and once a DELETE is
\* answered with success the row of that id is gone from its table.
C15_ByIdRoutesServed ==
    \A i \in Arrived :
        triggers[i].kind \in NoRouteKinds /\ triggers[i].pc = "done" =>
            /\ Reply(i).status # 404
            /\ triggers[i].kind = "DELETE /app/user/u1" /\ Reply(i).status < 300
                   => \A u \in users : u.id # "u1"
            /\ triggers[i].kind = "DELETE /app/todo/t1" /\ Reply(i).status < 300
                   => \A t \in todos : t.id # "t1"

\* ------------------------------------------------------------------------
\* C16: when a client has connected to the WebSocket server, that is, when
\* its request was upgraded, the server has issued the create of a User for
\* that connection.
C16_ConnectCreatesUser ==
    \A i \in Arrived :
        triggers[i].kind = "ws upgrade" /\ Reply(i) = SwitchingProtocols =>
            triggers[i].op = "user.create" /\ triggers[i].calls = 1

\* ------------------------------------------------------------------------
\* C17: in each adapter, whatever was sent back for a trigger that issued a
\* statement was sent after the round trip of the statement was over: the
\* outcome of the statement is known in every state in which something was
\* sent, and the step that sends is a step of a handler whose statement has
\* settled.  For the WebSocket server: when the message was echoed, the User
\* row of the create is in the table.
C17_ReplyAfterStatement ==
    \A i \in Arrived :
        LET t == triggers[i]
        IN  /\ t.op # "none" /\ t.out # <<>> =>
                /\ t.pc = "done"
                /\ t.result.state \in {"ok", "error"}
            /\ t.op # "none" /\ t.pc \in {"queued", "awaiting", "settled"} => t.out = <<>>
            /\ t.kind = "ws" /\ t.out # <<>> /\ t.result.state = "ok" =>
                /\ t.out = <<WsFrame(t.input.message)>>
                /\ t.result.rows # {}
                /\ t.result.rows \subseteq users

\* Each adapter has answered after a statement, and the WebSocket server has
\* echoed a message.
C17_Witness ==
    /\ \E i \in Arrived :
           /\ triggers[i].kind = "ws" /\ triggers[i].pc = "done"
           /\ triggers[i].out = <<WsFrame(triggers[i].input.message)>>
           /\ triggers[i].result.rows \subseteq users
    /\ \E j \in Arrived :
           /\ triggers[j].kind \in RestRoutes \cup {"render"}
           /\ triggers[j].calls = 1 /\ triggers[j].out # <<>>

\* ------------------------------------------------------------------------
\* The round trip of trigger i can end, and its handler can answer, whatever
\* the other statements do.
Served(i) ==
    /\ triggers[i].pc # "queued"
    /\ triggers[i].pc = "awaiting" => ENABLED StorageRoundTripOf(i)
    /\ triggers[i].pc = "settled" =>
           ENABLED Resume(i, triggers[i].kind, FailureResponse(triggers[i].kind))

\* C18 as stated: while round trips hang, however many, every trigger that
\* arrives is served: its own round trip can end and its handler can answer.
C18_OthersAlwaysServed ==
    \A i \in Arrived : Served(i)

\* C18, amended: while round trips hang, a trigger that arrives is served
\* unless PoolMax statements of its process are in flight at that time: then,
\* and only then, its statement waits for a connection (in arrival order)
\* until one of these round trips ends.  Triggers that issue no statement and
\* triggers of the other processes are served all the same.
C18_ServedUnlessPoolExhausted ==
    /\ \A i \in Arrived :
           \/ Served(i)
           \/ /\ triggers[i].pc = "queued"
              /\ triggers[i].op # "none"
              /\ InFlight(db[ProcOf(triggers[i].kind)]) = PoolMax
    /\ \A p \in Procs : db[p].waitingCount = Cardinality(Queued(p))
    /\ \A p \in Procs : InFlight(db[p]) <= PoolMax

\* PoolMax statements of the REST API are in flight, one of which belongs to
\* a trigger, which is served, and the trigger that arrived next waits.
C18_Witness ==
    \E i, j \in Arrived :
        /\ i < j
        /\ ProcOf(triggers[i].kind) = "backend" /\ ProcOf(triggers[j].kind) = "backend"
        /\ triggers[i].pc = "awaiting" /\ Served(i)
        /\ triggers[j].pc = "queued"
        /\ InFlight(db["backend"]) = PoolMax

\* ------------------------------------------------------------------------
\* A POST that lacks a field its route requires (or has no body at all).
FailsValidation(t) ==
    \/ t.kind = "POST /"
         /\ (Missing(t.input.username) \/ Missing(t.input.password))
    \/ t.kind = "POST /todos"
         /\ (Missing(t.input.task) \/ Missing(t.input.userId))

\* A POST whose body has the fields its route requires.
PassesValidation(t) ==
    \/ t.kind = "POST /" /\ t.input.parsed
         /\ ~Missing(t.input.username) /\ ~Missing(t.input.password)
    \/ t.kind = "POST /todos" /\ t.input.parsed
         /\ ~Missing(t.input.task) /\ ~Missing(t.input.userId)

\* C19: a trigger causes at most one call of the Data Access Client: one for
\* a WebSocket message, a render, a GET and a POST that passes validation,
\* none for a POST that fails validation; the count is final when the trigger
\* arrives, so that no later step, in particular no step after a failed
\* call, issues another call, and a trigger whose call failed is answered
\* without another round trip.
C19_OneCallPerTrigger ==
    [][\A i \in 1..Len(triggers') :
          LET t == triggers'[i]
          IN  /\ t.calls <= 1
              /\ Arrives(i) =>
                     /\ t.kind \in {"ws", "render", "GET /", "GET /todos"}
                            \/ PassesValidation(t)
                        => t.calls = 1 /\ t.op # "none" /\ t.pc \in {"awaiting", "queued"}
                     /\ FailsValidation(t) => t.calls = 0 /\ t.op = "none"
              /\ i \in Arrived =>
                     /\ t.calls = triggers[i].calls
                     /\ t.op = triggers[i].op
                     /\ triggers[i].result.state = "error" =>
                            /\ t.result = triggers[i].result
                            /\ t.pc \in {triggers[i].pc, "done"}]_vars

\* A call failed and its trigger is answered after this one call, and a POST
\* that failed validation is answered without a call.
C19_Witness ==
    /\ \E i \in Arrived :
           /\ triggers[i].result.state = "error"
           /\ triggers[i].pc = "done"
           /\ triggers[i].calls = 1
    /\ \E j \in Arrived :
           /\ FailsValidation(triggers[j])
           /\ triggers[j].calls = 0

\* ------------------------------------------------------------------------
\* The step is a step of a GET or of a render: the trigger arrives, its
\* round trip ends, or its handler answers.
ReadStep ==
    \E i \in 1..Len(triggers') :
        /\ triggers'[i].kind \in {"GET /", "GET /todos", "render"}
        /\ i \in Arrived =>
               triggers[i].pc # "queued" /\ triggers'[i].pc # triggers[i].pc

TableOf(op) == IF op = "user.findMany" THEN users ELSE todos

ListOps == {"user.findMany", "todo.findMany"}

C22_RenderReadsAtRequestTime ==
    [][\A i \in 1..Len(triggers') :
          LET t == triggers'[i]
          IN  t.kind = "render" =>
                  /\ Arrives(i) =>
                         /\ t.op = "user.findMany" /\ t.calls = 1
                         /\ t.pc \in {"awaiting", "queued"}
                         /\ t.out = <<>>
                  /\ i \in Arrived /\ Moves(i, "awaiting", "settled")
                         /\ t.result.state = "ok"
                     => t.result.rows = users
                  /\ i \in Arrived /\ Moves(i, "settled", "done")
                         /\ t.result.state = "ok"
                     => t.out = <<Html(200, "", t.result.rows)>>]_vars

\* A render that began after a User was created is answered with that User
\* in its page: the User was created by the trigger that arrived first and
\* was answered, and the page has all the rows of the table.
C22_Witness ==
    \E i \in Arrived :
        /\ triggers[i].kind = "render"
        /\ triggers[i].pc = "done"
        /\ users # {}
        /\ Reply(i).status = 200
        /\ Reply(i).rows = users

\* ------------------------------------------------------------------------
\* C23: a render whose user.findMany failed ends as a server error, which is
\* all that is sent for it: no page with a list of users, partial or empty,
\* and the exception reaches the framework from Home itself (one statement,
\* no other attempt).
C23_RenderFailurePropagates ==
    \A i \in Arrived :
        triggers[i].kind = "render" /\ triggers[i].pc = "done"
            /\ triggers[i].result.state = "error"
        => /\ Len(triggers[i].out) = 1
           /\ Reply(i).status = 500
           /\ Reply(i).type = "html"
           /\ Reply(i).rows = {}
           /\ Reply(i) # Html(200, "", {})
           /\ triggers[i].calls = 1

\* A render whose statement failed while the table had a row is answered.
C23_Witness ==
    \E i \in Arrived :
        /\ triggers[i].kind = "render"
        /\ triggers[i].pc = "done"
        /\ triggers[i].result.state = "error"
        /\ Reply(i).status = 500
        /\ users # {}

\* ------------------------------------------------------------------------
\* C24: how a trigger is handled depends on its kind and input and on the
\* outcome of its own statement only.  Any two triggers of the same kind
\* with the same input, whatever came before each: issue the same statement
\* (with the same data, but for the random data of websocket.message), and,
\* when their statements had the same outcome, are answered the same.  In
\* particular a WebSocket message is echoed when its create succeeded,
\* also after a message whose create failed.
C24_HandlersKeepNoState ==
    /\ \A i, j \in Arrived :
           LET s == triggers[i]
               t == triggers[j]
           IN  s.kind = t.kind /\ s.input = t.input =>
                   /\ s.op = t.op /\ s.calls = t.calls
                   /\ s.kind # "ws" => s.data = t.data
                   /\ s.pc = "done" /\ t.pc = "done" =>
                          /\ s.result = t.result => s.out = t.out
                          /\ s.kind = "ws" /\ s.result.state = t.result.state
                                 => s.out = t.out
    /\ \A j \in Arrived :
           triggers[j].kind = "ws" /\ triggers[j].pc = "done"
               /\ triggers[j].result.state = "ok"
           => triggers[j].out = <<WsFrame(triggers[j].input.message)>>

\* A WebSocket message whose create failed was answered the error text, and
\* the same message, arrived after it, is echoed.
C24_Witness ==
    \E i, j \in Arrived :
        /\ i < j
        /\ triggers[i].kind = "ws" /\ triggers[j].kind = "ws"
        /\ triggers[i].input = triggers[j].input
        /\ triggers[i].pc = "done" /\ triggers[j].pc = "done"
        /\ triggers[i].result.state = "error"
        /\ triggers[i].out = <<WsFrame(ErrorText)>>
        /\ triggers[j].out = <<WsFrame(triggers[j].input.message)>>

FreeUserIds == {UserIdPool[k] : k \in 1..Len(UserIdPool)} \ UserIds(users)

\* C26: in every state of the two tables, the DELETE of a User that at least
\* one Todo references is rejected and leaves both tables as they are, and
\* the UPDATE of a User's id to a free id succeeds and gives the new id to
\* the userId of every Todo that referenced the User, and changes no other
\* Todo: afterwards the Todos that reference the new id are those that
\* referenced the old one, with the new userId, and none references the
\* old id.
C26_DeleteRestrictUpdateCascade ==
    \A u \in users :
        /\ Referencing(todos, u.id) # {} =>
               LET after == UserDelete(users, todos, u.id)
               IN  /\ after.result.state = "error"
                   /\ after.users = users
                   /\ after.todos = todos
        /\ \A new \in FreeUserIds :
               LET after == UserUpdateId(users, todos, u.id, new)
               IN  /\ after.result.state = "ok"
                   /\ [u EXCEPT !.id = new] \in after.users
                   /\ Referencing(after.todos, u.id) = {}
                   /\ Referencing(after.todos, new) =
                          {[t EXCEPT !.userId = new] : t \in Referencing(todos, u.id)}
                   /\ after.todos \ Referencing(after.todos, new) =
                          todos \ Referencing(todos, u.id)
                   /\ Cardinality(after.todos) = Cardinality(todos)

\* A User that a Todo references has the id an UPDATE gave it (the generator
\* does not hand out this id), and the DELETE of this User is rejected.
C26_Witness ==
    \E u \in users :
        /\ u.id = UserIdPool[MaxRows + 1]
        /\ Referencing(todos, u.id) # {}
        /\ UserDelete(users, todos, u.id).result.state = "error"
        /\ Cardinality(users) = 2

\* ------------------------------------------------------------------------
\* C27: in a process started with DATABASE_URL set in its environment, the
\* pool is built with that value, whatever the .env file holds, and the
\* statements go to the store of that value: with a process value that is
\* not the store's, no statement succeeds even if the file has the store's.
C27_ProcessEnvWinsOverFile ==
    \A p \in Procs :
        db[p].processEnv # Undefined =>
            /\ db[p].connectionString = db[p].processEnv
            /\ db[p].processEnv # GoodUrl =>
                   \A i \in Arrived :
                       ProcOf(triggers[i].kind) = p
                           /\ triggers[i].pc \in {"settled", "done"}
                       => triggers[i].result = Rejected("connection")

\* The process environment has the store's connection string and the file
\* another value, and a message was echoed after its create.
C27_Witness ==
    /\ db["ws"].processEnv = GoodUrl
    /\ db["ws"].dotenvFile \notin {Undefined, GoodUrl}
    /\ \E i \in Arrived :
           /\ triggers[i].pc = "done"
           /\ triggers[i].result.state = "ok"
           /\ triggers[i].out = <<WsFrame(triggers[i].input.message)>>

\* ------------------------------------------------------------------------
\* C28: while two creates of a User are in flight, the round trip of either
\* can end next: the one issued first and the one issued second.  (Both
\* orders of completion are then behaviours; the witness is a state of the
\* order that an ordered store would exclude.)
C28_EitherCompletesFirst ==
    \A i, j \in UserCreates :
        i < j /\ triggers[i].pc = "awaiting" /\ triggers[j].pc = "awaiting" =>
            /\ ENABLED (StorageRoundTripOf(i) /\ triggers'[j].pc = "awaiting")
            /\ ENABLED (StorageRoundTripOf(j) /\ triggers'[i].pc = "awaiting")

\* The create issued second has completed, with success, and the create
\* issued first is still in flight.
C28_Witness ==
    \E i, j \in UserCreates :
        /\ i < j
        /\ triggers[i].pc = "awaiting"
        /\ triggers[j].pc \in {"settled", "done"}
        /\ triggers[j].result.state = "ok"

\* ------------------------------------------------------------------------
\* C29: no trigger is answered twice.  A trigger has at most one answer; the
\* answer of a request of the REST routes has status 200, 201, 400 or 500;
\* the answer of a message is one frame, the message or the error text; and
\* an answer, once given, is never followed or replaced by another.
C29_AnsweredAtMostOnce ==
    /\ \A i \in Arrived :
           /\ Len(triggers[i].out) <= 1
           /\ triggers[i].out # <<>> =>
                  /\ triggers[i].pc = "done"
                  /\ triggers[i].kind \in RestRoutes =>
                         Reply(i).status \in {200, 201, 400, 500}
                  /\ triggers[i].kind = "ws" =>
                         /\ Reply(i).type = "ws"
                         /\ Reply(i).text \in {triggers[i].input.message, ErrorText}
    /\ [][\A i \in Arrived :
              triggers[i].out # <<>> => triggers'[i].out = triggers[i].out]_vars

\* A message whose create failed and a request, both answered, once each,
\* and the message with the error text alone.
C29_Witness ==
    \E i, j \in Arrived :
        /\ triggers[i].kind = "ws" /\ triggers[i].pc = "done"
        /\ triggers[i].result.state = "error"
        /\ triggers[i].out = <<WsFrame(ErrorText)>>
        /\ triggers[j].kind \in RestRoutes /\ triggers[j].pc = "done"
        /\ Len(triggers[j].out) = 1

\* The statement of trigger i is in flight and the trigger has no answer.
Pending(i) ==
    i \in Arrived /\ triggers[i].pc = "awaiting" /\ triggers[i].out = <<>>

\* Trigger i has its one answer.
AnsweredOnce(i) ==
    i \in Arrived /\ triggers[i].pc = "done" /\ Len(triggers[i].out) = 1

====
